---------------------------- MODULE Spec2Model ----------------------------
(***************************************************************************)
(* Permission-requirement analysis of the fold/unfold encoder:             *)
(* prusti-viper/src/encoder/foldunfold/requirements.rs.                    *)
(*                                                                         *)
(* get_required_permissions is a recursive function from a vir statement  *)
(* or expression and the predicate registry to a set of permissions; it   *)
(* panics on some constructs.  An outcome is a record                     *)
(*     [ok |-> TRUE, perms |-> S]     the call returned the set S          *)
(*     [ok |-> FALSE, perms |-> {}]   the call panicked                    *)
(* vir nodes are records with a "tag" field naming the enum variant and   *)
(* the fields of that variant (source positions are left out: they take   *)
(* no part in the equality of expressions or permissions).                *)
(*                                                                         *)
(* The arguments of Fold, Unfold, Unfolding, PredicateAccessPredicate and *)
(* Downcast are drawn from places only: debug_assert!(place.is_place())   *)
(* is the precondition of those arms.  Stmt::Inhale is not generated: its *)
(* result is decided by get_footprint of footprint.rs.                    *)
(***************************************************************************)
EXTENDS Integers, Sequences, FiniteSets, TLC

VARIABLES predicates, pc, construct, result

vars == <<predicates, pc, construct, result>>

(***************************************************************************)
(* Bounds of the generated inputs.                                         *)
(***************************************************************************)
\* longest Vec generated for Seq elements, call arguments and branches
MaxVecLen == 2
\* longest chain of field / old steps generated above a local variable
MaxPlaceDepth == 1

(***************************************************************************)
(* vir::PermAmount, vir::Type, vir::LocalVar, vir::Field                   *)
(***************************************************************************)
Read == "Read"
Write == "Write"
PermAmount == {Read, Write}

IntType == [kind |-> "Int", name |-> "int"]
TypedRef(n) == [kind |-> "TypedRef", name |-> n]
TypeVar(n) == [kind |-> "TypeVar", name |-> n]

is_typed_ref_or_type_var(typ) == typ.kind \in {"TypedRef", "TypeVar"}

LocalVar(n, typ) == [name |-> n, typ |-> typ]
FieldOf(n, typ) == [name |-> n, typ |-> typ]

(***************************************************************************)
(* vir::Expr constructors                                                  *)
(***************************************************************************)
Const == [tag |-> "Const"]
Local(v) == [tag |-> "Local", variable |-> v]
Field(b, f) == [tag |-> "Field", base |-> b, field |-> f]
Variant(b, f) == [tag |-> "Variant", base |-> b, variant_index |-> f]
LabelledOld(l, b) == [tag |-> "LabelledOld", label |-> l, base |-> b]
AddrOf(b, typ) == [tag |-> "AddrOf", base |-> b, addr_type |-> typ]
Unfolding(args, b, perm, var) ==
    [tag |-> "Unfolding", arguments |-> args, base |-> b,
     permission |-> perm, variant |-> var]
PredicateAccessPredicate(arg, perm) ==
    [tag |-> "PredicateAccessPredicate", argument |-> arg, permission |-> perm]
FieldAccessPredicate(b, perm) ==
    [tag |-> "FieldAccessPredicate", base |-> b, permission |-> perm]
UnaryOp(arg) == [tag |-> "UnaryOp", argument |-> arg]
BinOp(l, r) == [tag |-> "BinOp", left |-> l, right |-> r]
ContainerOp(l, r) == [tag |-> "ContainerOp", left |-> l, right |-> r]
SeqExpr(elems) == [tag |-> "Seq", elements |-> elems]
Cond(g, t, e) == [tag |-> "Cond", guard |-> g, then_expr |-> t, else_expr |-> e]
LetExpr(v, d, b) == [tag |-> "LetExpr", variable |-> v, def |-> d, body |-> b]
ForAll(vs, b) == [tag |-> "ForAll", variables |-> vs, body |-> b]
Exists(vs, b) == [tag |-> "Exists", variables |-> vs, body |-> b]
MagicWand(l, r) == [tag |-> "MagicWand", left |-> l, right |-> r]
FuncApp(n, args) == [tag |-> "FuncApp", function_name |-> n, arguments |-> args]
DomainFuncApp(n, args) ==
    [tag |-> "DomainFuncApp", domain_function |-> n, arguments |-> args]
InhaleExhale(i, e) == [tag |-> "InhaleExhale", inhale_expr |-> i, exhale_expr |-> e]
DowncastExpr(b, p, f) ==
    [tag |-> "Downcast", base |-> b, enum_place |-> p, field |-> f]
SnapApp(b) == [tag |-> "SnapApp", base |-> b]

(***************************************************************************)
(* perm::Perm and the outcome of a call                                    *)
(***************************************************************************)
Acc(place, amount) == [kind |-> "Acc", place |-> place, amount |-> amount]
Pred(place, amount) == [kind |-> "Pred", place |-> place, amount |-> amount]

Panic == [ok |-> FALSE, perms |-> {}]
Returns(S) == [ok |-> TRUE, perms |-> S]


(***************************************************************************)
(* vir::Stmt constructors                                                  *)
(***************************************************************************)
Comment == [tag |-> "Stmt::Comment"]
Label == [tag |-> "Stmt::Label"]
Exhale(e) == [tag |-> "Stmt::Exhale", expr |-> e]
Assert_(e) == [tag |-> "Stmt::Assert", expr |-> e]
Obtain(e) == [tag |-> "Stmt::Obtain", expr |-> e]
MethodCall(args, ts) ==
    [tag |-> "Stmt::MethodCall", arguments |-> args, targets |-> ts]
Assign(t, s) == [tag |-> "Stmt::Assign", target |-> t, source |-> s]
Fold(args, perm, var) ==
    [tag |-> "Stmt::Fold", arguments |-> args, permission |-> perm,
     enum_variant |-> var]
Unfold(args, perm) ==
    [tag |-> "Stmt::Unfold", arguments |-> args, permission |-> perm]
BeginFrame == [tag |-> "Stmt::BeginFrame"]
EndFrame == [tag |-> "Stmt::EndFrame"]
TransferPerm(l, u) == [tag |-> "Stmt::TransferPerm", left |-> l, unchecked |-> u]
PackageMagicWand == [tag |-> "Stmt::PackageMagicWand"]
ApplyMagicWand(w) == [tag |-> "Stmt::ApplyMagicWand", magic_wand |-> w]
ExpireBorrows == [tag |-> "Stmt::ExpireBorrows"]
If(g, t, e) ==
    [tag |-> "Stmt::If", guard |-> g, then_stmts |-> t, else_stmts |-> e]
DowncastStmt(b, f) == [tag |-> "Stmt::Downcast", base |-> b, field |-> f]
\* a statement kind the match has no arm for
Assume(e) == [tag |-> "Stmt::Assume", expr |-> e]

(***************************************************************************)
(* Helpers of vir::Expr used by the analysis                               *)
(***************************************************************************)
RECURSIVE is_place(_)
is_place(e) ==
    CASE e.tag = "Local" -> TRUE
      [] e.tag \in {"Variant", "Field", "AddrOf", "LabelledOld", "Unfolding"} ->
            is_place(e.base)
      [] OTHER -> FALSE

\* the type of a place
RECURSIVE get_type(_)
get_type(e) ==
    CASE e.tag = "Local" -> e.variable.typ
      [] e.tag = "Field" -> e.field.typ
      [] e.tag = "Variant" -> e.variant_index.typ
      [] e.tag = "AddrOf" -> e.addr_type
      [] OTHER -> get_type(e.base)

get_label(e) == IF e.tag = "LabelledOld" THEN <<e.label>> ELSE <<>>

is_old(e) == get_label(e) # <<>>

old(e, l) == IF e.tag \in {"Local", "LabelledOld"} THEN e ELSE LabelledOld(l, e)

\* the name of a reference type is "ref$" followed by the name of its target
RefTarget(n) ==
    CASE n = "ref$T" -> <<"T">>
      [] n = "ref$E" -> <<"E">>
      [] OTHER -> <<>>

\* Option<Expr>: <<>> is None, <<d>> is Some(d)
try_deref(e) ==
    IF get_type(e).kind = "TypedRef" /\ RefTarget(get_type(e).name) # <<>>
    THEN <<Field(e, FieldOf("val_ref", TypedRef(RefTarget(get_type(e).name)[1])))>>
    ELSE <<>>

RECURSIVE replace_place(_, _, _)
replace_place(e, target, replacement) ==
    IF is_place(e) /\ e = target THEN replacement
    ELSE CASE e.tag = "Field" ->
                Field(replace_place(e.base, target, replacement), e.field)
           [] e.tag = "Variant" ->
                Variant(replace_place(e.base, target, replacement), e.variant_index)
           [] e.tag = "LabelledOld" ->
                LabelledOld(e.label, replace_place(e.base, target, replacement))
           [] OTHER -> e

(***************************************************************************)
(* Helpers of perm::Perm                                                   *)
(***************************************************************************)
init_perm_amount(perm, new_perm) == [perm EXCEPT !.amount = new_perm]

update_perm_amount(perm, new_perm) == [perm EXCEPT !.amount = new_perm]

\* a permission of left is removed when right holds one of its kind and place
perm_difference(left, right) ==
    {l \in left : ~ \E r \in right : r.kind = l.kind /\ r.place = l.place}

(***************************************************************************)
(* The predicate registry: a function from types to predicates.  A        *)
(* predicate is [kind, this, footprint, discriminant_field]; footprint    *)
(* maps an optional variant to the permissions of the body.               *)
(***************************************************************************)
NoVariant == "None"

self_place(predicate) == Local(predicate.this)

get_body_footprint(predicate, variant) ==
    IF variant \in DOMAIN predicate.footprint
    THEN predicate.footprint[variant] ELSE {}


(***************************************************************************)
(* impl RequiredPermissionsGetter for Vec<A>: the fold of the union over  *)
(* the elements' outcomes, from the empty set.  A panicking element ends  *)
(* the fold.                                                               *)
(***************************************************************************)
\* UnionOutcome returning what the elements that did not panic require
UnionOutcome_BestEffort(res, x) ==
    Returns((IF res.ok THEN res.perms ELSE {}) \cup (IF x.ok THEN x.perms ELSE {}))

UnionOutcome(res, x) ==
    IF res.ok /\ x.ok THEN Returns(res.perms \cup x.perms) ELSE Panic

RECURSIVE Vec_get_required_permissions(_)
Vec_get_required_permissions(outcomes) ==
    IF Len(outcomes) = 0 THEN Returns({})
    ELSE UnionOutcome(
            Vec_get_required_permissions(SubSeq(outcomes, 1, Len(outcomes) - 1)),
            outcomes[Len(outcomes)])

(***************************************************************************)
(* impl RequiredPermissionsGetter for vir::Expr, one operator per arm of  *)
(* the match.  An arm takes the outcomes of the recursive calls it makes. *)
(***************************************************************************)
map_place_replace(perm, pred_self_place, place) ==
    [perm EXCEPT !.place = replace_place(@, pred_self_place, place)]

\* UnfoldingArm without the simulated temporary unfold
UnfoldingArm_NoDifference(preds, e, base_reqs) ==
    IF Len(e.arguments) # 1 THEN Panic
    ELSE IF get_type(e.arguments[1]) \notin DOMAIN preds THEN Panic
    ELSE IF ~ base_reqs.ok THEN Panic
    ELSE Returns(base_reqs.perms \cup {Pred(e.arguments[1], e.permission)})

UnfoldingArm(preds, e, base_reqs) ==
    IF Len(e.arguments) # 1 THEN Panic
    ELSE LET place == e.arguments[1] IN
         IF get_type(place) \notin DOMAIN preds THEN Panic
         ELSE IF ~ base_reqs.ok THEN Panic
         ELSE LET predicate == preds[get_type(place)]
                  pred_self_place == self_place(predicate)
                  places_in_pred ==
                      {update_perm_amount(
                           map_place_replace(aop, pred_self_place, place),
                           e.permission) :
                       aop \in get_body_footprint(predicate, e.variant)}
                  req_places == perm_difference(base_reqs.perms, places_in_pred)
              IN  Returns(req_places \cup {Pred(place, e.permission)})

\* PredicateAccessPredicateArm taking the amount written in the predicate access
PredicateAccessPredicateArm_OwnAmount(e) ==
    LET place == IF get_label(e.argument) = <<>> THEN e.argument
                 ELSE old(e.argument, get_label(e.argument)[1])
    IN  IF is_old(e.argument)
        THEN Returns({Pred(place, e.permission)})
        ELSE Returns({Pred(place, e.permission), Acc(place, e.permission)})

PredicateAccessPredicateArm(e) ==
    LET argument == e.argument
        epsilon == Read
    IN  IF get_label(argument) = <<>>
        THEN IF is_old(argument)
             THEN Returns({Pred(argument, epsilon)})
             ELSE Returns({Pred(argument, epsilon), Acc(argument, epsilon)})
        ELSE LET label == get_label(argument)[1] IN
             IF is_old(argument)
             THEN Returns({Pred(old(argument, label), epsilon)})
             ELSE Returns({Pred(old(argument, label), epsilon),
                           Acc(old(argument, label), epsilon)})

BinOpArm(left_reqs, right_reqs) ==
    Vec_get_required_permissions(<<left_reqs, right_reqs>>)

ContainerOpArm(left_reqs, right_reqs) ==
    Vec_get_required_permissions(<<left_reqs, right_reqs>>)

SeqArm(elements_reqs) == Vec_get_required_permissions(elements_reqs)

\* CondArm treating the two arms as Stmt::If treats its branches
CondArm_IntersectArms(guard_reqs, then_reqs, else_reqs) ==
    IF ~ (guard_reqs.ok /\ then_reqs.ok /\ else_reqs.ok) THEN Panic
    ELSE Returns(guard_reqs.perms \cup (then_reqs.perms \cap else_reqs.perms))

CondArm(guard_reqs, then_reqs, else_reqs) ==
    Vec_get_required_permissions(<<guard_reqs, then_reqs, else_reqs>>)

\* QuantifierArm letting the bound variables' permissions through
QuantifierArm_KeepBound(variables, body_reqs) ==
    IF \E i \in 1..Len(variables) : is_typed_ref_or_type_var(variables[i].typ)
    THEN Panic
    ELSE body_reqs

QuantifierArm(variables, body_reqs) ==
    IF \E i \in 1..Len(variables) : is_typed_ref_or_type_var(variables[i].typ)
    THEN Panic
    ELSE IF ~ body_reqs.ok THEN Panic
    ELSE LET vars_places ==
                 {Acc(Local(variables[i]), Write) : i \in 1..Len(variables)}
         IN  Returns(perm_difference(body_reqs.perms, vars_places))

\* PlaceArm asking for write access to the field or variant
PlaceArm_WriteAccess(e) == Returns({Acc(e, Write)})

PlaceArm(e) == Returns({Acc(e, Read)})

\* FuncAppArgument without the rewriting of reference-typed places
FuncAppArgument_NoRewrite(arg) == arg

\* the expression analysed in place of argument `arg` of a call
FuncAppArgument(arg) ==
    IF is_place(arg) /\ is_typed_ref_or_type_var(get_type(arg))
    THEN IF try_deref(arg) # <<>>
         THEN LET field_place == try_deref(arg)[1] IN
              BinOp(FieldAccessPredicate(field_place, Read),
                    PredicateAccessPredicate(field_place, Read))
         ELSE PredicateAccessPredicate(arg, Read)
    ELSE arg

FuncAppArm(arguments_reqs) == Vec_get_required_permissions(arguments_reqs)

\* DowncastArm taking the discriminant field of any predicate
DowncastArm_AnyPredicate(preds, e) ==
    IF get_type(e.enum_place) \notin DOMAIN preds THEN Panic
    ELSE PlaceArm(Field(e.enum_place,
                        preds[get_type(e.enum_place)].discriminant_field))

DowncastArm(preds, e) ==
    LET predicate_type == get_type(e.enum_place) IN
    IF predicate_type \notin DOMAIN preds THEN Panic
    ELSE IF preds[predicate_type].kind # "Enum" THEN Panic
    ELSE PlaceArm(Field(e.enum_place, preds[predicate_type].discriminant_field))

RECURSIVE Expr_get_required_permissions(_, _)
Expr_get_required_permissions(e, preds) ==
    CASE e.tag = "Const" -> Returns({})
      [] e.tag = "Unfolding" ->
            UnfoldingArm(preds, e, Expr_get_required_permissions(e.base, preds))
      [] e.tag = "LabelledOld" -> Returns({})
      [] e.tag = "PredicateAccessPredicate" -> PredicateAccessPredicateArm(e)
      [] e.tag = "FieldAccessPredicate" ->
            Expr_get_required_permissions(e.base, preds)
      [] e.tag = "UnaryOp" -> Expr_get_required_permissions(e.argument, preds)
      [] e.tag = "BinOp" ->
            BinOpArm(Expr_get_required_permissions(e.left, preds),
                     Expr_get_required_permissions(e.right, preds))
      [] e.tag = "ContainerOp" ->
            ContainerOpArm(Expr_get_required_permissions(e.left, preds),
                           Expr_get_required_permissions(e.right, preds))
      [] e.tag = "Seq" ->
            SeqArm([i \in 1..Len(e.elements) |->
                        Expr_get_required_permissions(e.elements[i], preds)])
      [] e.tag = "Cond" ->
            CondArm(Expr_get_required_permissions(e.guard, preds),
                    Expr_get_required_permissions(e.then_expr, preds),
                    Expr_get_required_permissions(e.else_expr, preds))
      [] e.tag = "LetExpr" -> Panic
      [] e.tag \in {"ForAll", "Exists"} ->
            QuantifierArm(e.variables, Expr_get_required_permissions(e.body, preds))
      [] e.tag = "Local" -> Returns({})
      [] e.tag = "AddrOf" -> Panic
      [] e.tag = "Variant" -> PlaceArm(e)
      [] e.tag = "Field" -> PlaceArm(e)
      [] e.tag = "MagicWand" -> Returns({})
      [] e.tag \in {"FuncApp", "DomainFuncApp"} ->
            FuncAppArm([i \in 1..Len(e.arguments) |->
                Expr_get_required_permissions(
                    FuncAppArgument(e.arguments[i]), preds)])
      [] e.tag = "InhaleExhale" -> Returns({})
      [] e.tag = "Downcast" -> DowncastArm(preds, e)
      [] e.tag = "SnapApp" -> Panic


(***************************************************************************)
(* impl RequiredPermissionsGetter for vir::Stmt                            *)
(***************************************************************************)
MethodCallArm(s) ==
    IF s.arguments # <<>> THEN Panic
    ELSE Returns({Acc(Local(s.targets[i]), Write) : i \in 1..Len(s.targets)})

\* AssignArm asking for read access to the target
AssignArm_ReadTarget(target, source_reqs) ==
    IF ~ source_reqs.ok THEN Panic
    ELSE Returns(source_reqs.perms \cup {Acc(target, Read)})

AssignArm(target, source_reqs) ==
    IF ~ source_reqs.ok THEN Panic
    ELSE Returns(source_reqs.perms \cup {Acc(target, Write)})

\* FoldArm leaving the predicate's self place in the footprint
FoldArm_KeepSelfPlace(preds, s) ==
    IF Len(s.arguments) # 1 THEN Panic
    ELSE LET place == s.arguments[1] IN
         IF get_type(place) \notin DOMAIN preds THEN Panic
         ELSE Returns({init_perm_amount(perm, s.permission) :
                perm \in get_body_footprint(preds[get_type(place)], s.enum_variant)})

FoldArm(preds, s) ==
    IF Len(s.arguments) # 1 THEN Panic
    ELSE LET place == s.arguments[1] IN
         IF get_type(place) \notin DOMAIN preds THEN Panic
         ELSE LET predicate == preds[get_type(place)]
                  pred_self_place == self_place(predicate)
              IN  Returns({init_perm_amount(
                               map_place_replace(perm, pred_self_place, place),
                               s.permission) :
                           perm \in get_body_footprint(predicate, s.enum_variant)})

UnfoldArm(s, place_reqs) ==
    IF Len(s.arguments) # 1 THEN Panic
    ELSE IF ~ place_reqs.ok THEN Panic
    ELSE Returns({init_perm_amount(perm, s.permission) : perm \in place_reqs.perms})

TransferPermArm(s) ==
    IF ~ s.unchecked THEN Returns({Acc(s.left, Read)}) ELSE Returns({})

\* IfArm with the branches united instead of intersected
IfArm_UnionBranches(guard_reqs, then_reqs, else_reqs) ==
    IF ~ (guard_reqs.ok /\ then_reqs.ok /\ else_reqs.ok) THEN Panic
    ELSE Returns(guard_reqs.perms \cup then_reqs.perms \cup else_reqs.perms)

\* IfArm intersecting the branches by kind and place, whatever the amount
IfArm_IntersectByPlace(guard_reqs, then_reqs, else_reqs) ==
    IF ~ (guard_reqs.ok /\ then_reqs.ok /\ else_reqs.ok) THEN Panic
    ELSE Returns(guard_reqs.perms \cup
            {t \in then_reqs.perms :
                \E e \in else_reqs.perms : e.kind = t.kind /\ e.place = t.place})

IfArm(guard_reqs, then_reqs, else_reqs) ==
    IF ~ (guard_reqs.ok /\ then_reqs.ok /\ else_reqs.ok) THEN Panic
    ELSE LET then_else_reqs == then_reqs.perms \cap else_reqs.perms
         IN  Returns(guard_reqs.perms \cup then_else_reqs)

RECURSIVE Stmt_get_required_permissions(_, _)
Stmt_get_required_permissions(s, preds) ==
    CASE s.tag \in {"Stmt::Comment", "Stmt::Label"} -> Returns({})
      [] s.tag \in {"Stmt::Exhale", "Stmt::Assert", "Stmt::Obtain"} ->
            Expr_get_required_permissions(s.expr, preds)
      [] s.tag = "Stmt::MethodCall" -> MethodCallArm(s)
      [] s.tag = "Stmt::Assign" ->
            AssignArm(s.target, Expr_get_required_permissions(s.source, preds))
      [] s.tag = "Stmt::Fold" -> FoldArm(preds, s)
      [] s.tag = "Stmt::Unfold" ->
            UnfoldArm(s,
                IF Len(s.arguments) = 1
                THEN Expr_get_required_permissions(s.arguments[1], preds)
                ELSE Panic)
      [] s.tag \in {"Stmt::BeginFrame", "Stmt::EndFrame"} -> Returns({})
      [] s.tag = "Stmt::TransferPerm" -> TransferPermArm(s)
      [] s.tag = "Stmt::PackageMagicWand" -> Returns({})
      [] s.tag = "Stmt::ApplyMagicWand" /\ s.magic_wand.tag = "MagicWand" ->
            Expr_get_required_permissions(s.magic_wand.left, preds)
      [] s.tag = "Stmt::ExpireBorrows" -> Returns({})
      [] s.tag = "Stmt::If" ->
            IfArm(Expr_get_required_permissions(s.guard, preds),
                  Vec_get_required_permissions(
                      [i \in 1..Len(s.then_stmts) |->
                          Stmt_get_required_permissions(s.then_stmts[i], preds)]),
                  Vec_get_required_permissions(
                      [i \in 1..Len(s.else_stmts) |->
                          Stmt_get_required_permissions(s.else_stmts[i], preds)]))
      [] s.tag = "Stmt::Downcast" ->
            Expr_get_required_permissions(
                DowncastExpr(Const, s.base, s.field), preds)
      [] OTHER -> Panic


(***************************************************************************)
(* The inputs: local variables, fields, places, registries, expressions   *)
(* and statements the analysis is called on.                               *)
(***************************************************************************)
x == LocalVar("x", IntType)
y == LocalVar("y", IntType)
z == LocalVar("z", IntType)
v == LocalVar("v", IntType)
w == LocalVar("w", IntType)
p == LocalVar("p", TypedRef("T"))
q == LocalVar("q", TypedRef("ref$T"))
en == LocalVar("en", TypedRef("E"))
tv == LocalVar("tv", TypeVar("X"))
vr == LocalVar("vr", TypedRef("T"))
this == LocalVar("self", TypedRef("T"))
thisE == LocalVar("self", TypedRef("E"))

f == FieldOf("f", IntType)
g == FieldOf("g", TypedRef("T"))
r == FieldOf("r", TypedRef("ref$T"))
discriminant == FieldOf("discriminant", IntType)
variantA == FieldOf("enum_A", TypedRef("T"))

Locals == {x, y, z, p, q, en, tv}
Fields == {f, g, r}
Variants == {NoVariant, "A"}

Vecs(S, n) == UNION {[1..k -> S] : k \in 0..n}

RECURSIVE PlacesUpTo(_)
PlacesUpTo(d) ==
    IF d = 0 THEN {Local(l) : l \in Locals}
    ELSE LET P == PlacesUpTo(d - 1) IN
         P \cup {Field(b, fl) : b \in P, fl \in Fields}
           \cup {Variant(b, variantA) : b \in P}
           \cup {LabelledOld("l1", b) : b \in P}

Places == PlacesUpTo(MaxPlaceDepth)

\* predicates of the registries
StructT ==
    [kind |-> "Struct", this |-> this, discriminant_field |-> discriminant,
     footprint |-> [var \in {NoVariant} |-> {Acc(Field(Local(this), f), Write)}]]
StructT2 ==
    [kind |-> "Struct", this |-> this, discriminant_field |-> discriminant,
     footprint |-> [var \in {NoVariant} |->
        {Acc(Field(Local(this), f), Write), Acc(Field(Local(this), g), Write),
         Pred(Field(Local(this), g), Write)}]]
\* a predicate whose body holds a predicate instance on its own self place
StructTRec ==
    [kind |-> "Struct", this |-> this, discriminant_field |-> discriminant,
     footprint |-> [var \in {NoVariant} |->
        {Acc(Field(Local(this), f), Read), Pred(Local(this), Write)}]]
EnumE ==
    [kind |-> "Enum", this |-> thisE, discriminant_field |-> discriminant,
     footprint |-> [var \in Variants |->
        IF var = NoVariant
        THEN {Acc(Field(Local(thisE), discriminant), Write)}
        ELSE {Acc(Field(Local(thisE), discriminant), Write),
              Acc(Variant(Local(thisE), variantA), Write),
              Pred(Variant(Local(thisE), variantA), Write)}]]

Registry(T, E) ==
    [typ \in {TypedRef("T"), TypedRef("E")} |->
        IF typ = TypedRef("T") THEN T ELSE E]

Registries ==
    {Registry(StructT, EnumE), Registry(StructT2, EnumE),
     Registry(StructTRec, StructT),
     [typ \in {TypedRef("E")} |-> EnumE]}

\* expressions on which the analysis panics
FatalExprs ==
    {LetExpr(v, Const, Const), AddrOf(Local(x), TypedRef("ref$T")),
     SnapApp(Local(p))}

\* expressions whose sub-expressions are not analysed
OpaqueExprs ==
    {LabelledOld("l1", LetExpr(v, Const, Const)),
     MagicWand(SnapApp(Local(p)), Field(Local(x), f)),
     InhaleExhale(Field(Local(x), f), LetExpr(v, Const, Const))}

Operands ==
    {Const, Local(x), Field(Local(x), f), Field(Local(y), f), Field(Local(p), g),
     PredicateAccessPredicate(Local(p), Write),
     Unfolding(<<Local(p)>>, Field(Local(p), f), Write, NoVariant)}
    \cup FatalExprs \cup {MagicWand(SnapApp(Local(p)), Field(Local(x), f))}

SmallOperands ==
    {Const, Field(Local(x), f), Field(Local(y), f),
     PredicateAccessPredicate(Local(p), Read), LetExpr(v, Const, Const)}

CallArguments ==
    {Const, Local(q), Local(p), Local(tv), Field(Local(x), f),
     Field(Local(p), r), LabelledOld("l1", Field(Local(p), g)),
     AddrOf(Local(x), TypedRef("ref$T")), LetExpr(v, Const, Const)}

QuantifierVars == {v, w, vr, tv}

QuantifierBodies ==
    {Const, PredicateAccessPredicate(Local(v), Read),
     BinOp(PredicateAccessPredicate(Local(v), Write), Field(Local(w), f)),
     BinOp(PredicateAccessPredicate(Local(v), Read),
           PredicateAccessPredicate(Local(w), Read)),
     Field(Local(v), f),
     Unfolding(<<Local(v)>>, Field(Local(v), f), Write, NoVariant),
     LetExpr(v, Const, Const)}

\* bases of an unfolding of `place`
UnfoldingBases(place) ==
    {Const, Field(place, f), Field(Local(x), f),
     BinOp(Field(place, g), Field(Field(place, g), f)),
     PredicateAccessPredicate(place, Write),
     Unfolding(<<place>>, Field(place, f), Write, NoVariant),
     Unfolding(<<Field(place, g)>>, Field(Field(place, g), f), Read, NoVariant),
     LetExpr(v, Const, Const)}

ExprInputs ==
    Operands \cup Places \cup OpaqueExprs
    \cup {UnaryOp(a) : a \in Operands}
    \cup {BinOp(a, b) : a \in Operands, b \in Operands}
    \cup {ContainerOp(a, b) : a \in Operands, b \in Operands}
    \cup {Cond(a, b, c) : a \in SmallOperands, b \in SmallOperands,
                          c \in SmallOperands}
    \cup {SeqExpr(es) : es \in Vecs(SmallOperands, MaxVecLen)}
    \cup {FuncApp(n, as) : n \in {"f1", "f2"},
                           as \in Vecs(CallArguments, MaxVecLen)}
    \cup {DomainFuncApp(n, as) : n \in {"f1", "f2"},
                                 as \in Vecs(CallArguments, MaxVecLen)}
    \cup {ForAll(vs, b) : vs \in Vecs(QuantifierVars, MaxVecLen),
                          b \in QuantifierBodies}
    \cup {Exists(vs, b) : vs \in Vecs(QuantifierVars, MaxVecLen),
                          b \in QuantifierBodies}
    \cup UNION {{Unfolding(<<pl>>, b, perm, var) :
                    b \in UnfoldingBases(pl), perm \in PermAmount,
                    var \in Variants} : pl \in Places}
    \cup {Unfolding(as, Const, Write, NoVariant) :
            as \in {<<>>, <<Local(p), Local(p)>>}}
    \cup {PredicateAccessPredicate(pl, perm) : pl \in Places, perm \in PermAmount}
    \cup {FieldAccessPredicate(pl, perm) : pl \in Places, perm \in PermAmount}
    \cup {DowncastExpr(Const, pl, fl) : pl \in Places, fl \in {f, variantA}}

BranchStmts ==
    {Assign(Local(x), Const), Assign(Local(y), Const), Assign(Local(z), Const),
     Exhale(LetExpr(v, Const, Const))}

\* statements that require one place at different amounts
AmountStmts ==
    {Assign(Local(y), Const), TransferPerm(Local(y), FALSE),
     Assign(Field(Local(y), f), Const), Unfold(<<Field(Local(y), f)>>, Read),
     MethodCall(<<Const>>, <<y>>)}

Guards == {Const, Field(Local(y), f), SnapApp(Local(p))}

StmtInputs ==
    {Comment, Label, BeginFrame, EndFrame, PackageMagicWand, ExpireBorrows,
     Assume(Const)}
    \cup {Exhale(e) : e \in Operands} \cup {Assert_(e) : e \in Operands}
    \cup {Obtain(e) : e \in Operands}
    \cup {MethodCall(as, ts) : as \in {<<>>, <<Const>>, <<Local(x), Const>>},
                               ts \in Vecs({x, y, p}, MaxVecLen)}
    \cup UNION {{Assign(pl, e) : e \in Operands \cup {pl, Field(pl, f)}} :
                    pl \in Places}
    \cup {Fold(<<pl>>, perm, var) : pl \in Places, perm \in PermAmount,
                                    var \in Variants}
    \cup {Fold(as, Write, NoVariant) : as \in {<<>>, <<Local(p), Local(p)>>}}
    \cup {Unfold(<<pl>>, perm) : pl \in Places, perm \in PermAmount}
    \cup {Unfold(as, Write) : as \in {<<>>, <<Local(p), Local(p)>>}}
    \cup {TransferPerm(pl, u) : pl \in Places, u \in BOOLEAN}
    \cup {ApplyMagicWand(e) :
            e \in {MagicWand(Field(Local(x), f), Field(Local(y), f)),
                   MagicWand(LetExpr(v, Const, Const), Const), Const}}
    \cup {If(gd, ts, es) : gd \in Guards, ts \in Vecs(BranchStmts, MaxVecLen),
                           es \in Vecs(BranchStmts, MaxVecLen)}
    \cup {If(gd, ts, es) : gd \in Guards, ts \in Vecs(AmountStmts, 1),
                           es \in Vecs(AmountStmts, 1)}
    \cup {If(Const, <<If(Const, ts, <<Assign(Local(y), Const)>>)>>, es) :
            ts \in Vecs(BranchStmts, 1), es \in Vecs(BranchStmts, 1)}
    \cup {DowncastStmt(pl, fl) : pl \in Places, fl \in {f, variantA}}

(***************************************************************************)
(* The driver calls the analysis on one statement or expression at a time *)
(* and takes the outcome; the registry is built before the first call.    *)
(***************************************************************************)
NoConstruct == [tag |-> "None"]

Init ==
    /\ predicates \in Registries
    /\ pc = "ready"
    /\ construct = NoConstruct
    /\ result = Returns({})

StmtCall ==
    /\ pc = "ready"
    /\ \E s \in StmtInputs :
        /\ construct' = s
        /\ result' = Stmt_get_required_permissions(s, predicates)
    /\ pc' = "returned"
    /\ UNCHANGED predicates

ExprCall ==
    /\ pc = "ready"
    /\ \E e \in ExprInputs :
        /\ construct' = e
        /\ result' = Expr_get_required_permissions(e, predicates)
    /\ pc' = "returned"
    /\ UNCHANGED predicates

\* the caller consumes the outcome and is ready for its next call
Consume ==
    /\ pc = "returned"
    /\ pc' = "ready"
    /\ construct' = NoConstruct
    /\ result' = Returns({})
    /\ UNCHANGED predicates

Next == StmtCall \/ ExprCall \/ Consume

Spec == Init /\ [][Next]_vars


(***************************************************************************)
(* Properties                                                              *)
(***************************************************************************)
Req(e) == Expr_get_required_permissions(e, predicates)
StmtReq(s) == Stmt_get_required_permissions(s, predicates)

Returned == pc = "returned"

\* the union of the requirements of a set of expressions
UnionOfExprs(S) ==
    IF \E e \in S : ~ Req(e).ok THEN Panic
    ELSE Returns(UNION {Req(e).perms : e \in S})

\* the requirement of a statement list: the union of its statements'
UnionOfStmts(stmts) ==
    IF \E i \in 1..Len(stmts) : ~ StmtReq(stmts[i]).ok THEN Panic
    ELSE Returns(UNION {StmtReq(stmts[i]).perms : i \in 1..Len(stmts)})

AccXW == Acc(Local(x), Write)
AccYW == Acc(Local(y), Write)
AccZW == Acc(Local(z), Write)

\* C1: the requirement of If(g, T, E) is requirement(g) united with the
\* intersection of requirement(T) and requirement(E), a statement list
\* requiring the union of its statements' requirements; when g requires
\* nothing, T requires {Acc(x,Write), Acc(y,Write)} and E requires
\* {Acc(y,Write), Acc(z,Write)} the result is exactly {Acc(y,Write)}.
C1_IfLaw ==
    (Returned /\ construct.tag = "Stmt::If") =>
        LET G == Req(construct.guard)
            T == UnionOfStmts(construct.then_stmts)
            E == UnionOfStmts(construct.else_stmts)
        IN  /\ (G.ok /\ T.ok /\ E.ok) =>
                    result = Returns(G.perms \cup (T.perms \cap E.perms))
            /\ (G = Returns({}) /\ T = Returns({AccXW, AccYW})
                    /\ E = Returns({AccYW, AccZW})) =>
                    result = Returns({AccYW})

C1_Witness ==
    /\ Returned
    /\ construct = If(Const, <<Assign(Local(x), Const), Assign(Local(y), Const)>>,
                      <<Assign(Local(y), Const), Assign(Local(z), Const)>>)
    /\ result = Returns({AccYW})

\* C2: the requirement of Assign(t, s) is requirement(s) united with
\* {Acc(t, Write)}: the write access to the target is always present and
\* nothing else is added to or removed from the source's requirement.
C2_AssignLaw ==
    (Returned /\ construct.tag = "Stmt::Assign") =>
        LET S == Req(construct.source)
            t == Acc(construct.target, Write)
        IN  IF S.ok
            THEN /\ result.ok
                 /\ t \in result.perms
                 /\ S.perms \subseteq result.perms
                 /\ result.perms \ {t} \subseteq S.perms
            ELSE result = Panic

C2_Witness ==
    /\ Returned
    /\ construct = Assign(Field(Local(x), f), Field(Field(Local(x), f), f))
    /\ result = Returns({Acc(Field(Field(Local(x), f), f), Read),
                         Acc(Field(Local(x), f), Write)})

\* C3: Fold([p], a, v) requires the body footprint for v of the registry's
\* predicate for p, the predicate's self place replaced by p in every place
\* and every amount set to a; with self place `self` and footprint
\* {Acc(self.f, Write)}, Fold([p], Write, None) requires exactly
\* {Acc(p.f, Write)}.  A Fold without exactly one argument panics.
C3_FoldLaw ==
    (Returned /\ construct.tag = "Stmt::Fold") =>
        IF Len(construct.arguments) # 1 THEN result = Panic
        ELSE LET place == construct.arguments[1]
                 typ == get_type(place)
             IN  typ \in DOMAIN predicates =>
                 /\ result = Returns(
                        {[kind |-> fp.kind,
                          place |-> replace_place(fp.place,
                                        Local(predicates[typ].this), place),
                          amount |-> construct.permission] :
                         fp \in get_body_footprint(predicates[typ],
                                                   construct.enum_variant)})
                 /\ (predicates[typ] = StructT /\ construct.permission = Write
                        /\ construct.enum_variant = NoVariant) =>
                        result = Returns({Acc(Field(place, f), Write)})

C3_Witness ==
    /\ Returned
    /\ construct = Fold(<<Field(Local(p), g)>>, Write, NoVariant)
    /\ TypedRef("T") \in DOMAIN predicates
    /\ predicates[TypedRef("T")] = StructT2
    /\ result = Returns({Acc(Field(Field(Local(p), g), f), Write),
                         Acc(Field(Field(Local(p), g), g), Write),
                         Pred(Field(Field(Local(p), g), g), Write)})

\* C4: Unfold([p], a) requires the folded predicate permission on p at that
\* amount: Unfold([p], Write) requires {Pred(p, Write)} for every place p.
C4_UnfoldRequiresPred ==
    (Returned /\ construct.tag = "Stmt::Unfold" /\ Len(construct.arguments) = 1) =>
        result = Returns({Pred(construct.arguments[1], construct.permission)})


\* the permissions the temporary unfold of an Unfolding makes available: the
\* body footprint of the predicate of p for the variant, self place replaced
\* by p, amounts updated to amt
Opened(e) ==
    LET place == e.arguments[1]
        predicate == predicates[get_type(place)]
    IN  {[kind |-> fp.kind,
          place |-> replace_place(fp.place, Local(predicate.this), place),
          amount |-> e.permission] :
         fp \in get_body_footprint(predicate, e.variant)}

UnfoldingReturned ==
    /\ Returned
    /\ construct.tag = "Unfolding"
    /\ result.ok

\* C5 as claimed: the set returned for Unfolding([p], base, amt, variant)
\* always contains Pred(p, amt) and contains no permission that is in
\* opened, also when opened itself contains Pred(p, amt).
C5_NoOpenedPermission ==
    UnfoldingReturned =>
        /\ Pred(construct.arguments[1], construct.permission) \in result.perms
        /\ result.perms \cap Opened(construct) = {}

\* C5 as amended: the set returned for Unfolding([p], base, amt, variant)
\* always contains Pred(p, amt) and contains no permission of opened other
\* than Pred(p, amt) itself.
C5_UnfoldingContainment ==
    UnfoldingReturned =>
        LET pred == Pred(construct.arguments[1], construct.permission) IN
        /\ pred \in result.perms
        /\ result.perms \cap Opened(construct) \subseteq {pred}

\* requirement(base) and opened share Acc(p.f, Read); it is not returned
C5_Witness ==
    /\ Returned
    /\ construct = Unfolding(<<Local(p)>>,
                             BinOp(Field(Local(p), g), Field(Field(Local(p), g), f)),
                             Read, NoVariant)
    /\ TypedRef("T") \in DOMAIN predicates
    /\ predicates[TypedRef("T")] = StructT2
    /\ Req(construct.base).perms \cap Opened(construct)
            = {Acc(Field(Local(p), g), Read)}
    /\ result = Returns({Acc(Field(Field(Local(p), g), f), Read),
                         Pred(Local(p), Read)})

\* C6: for ForAll and Exists whose bound variables all have a type that is
\* neither a reference nor a type variable, the result is requirement(body)
\* less (by the permission algebra's difference, which goes by kind and
\* place) a write access for each bound variable, so it holds no write
\* access to a bound variable; a body requirement {Acc(v, Write),
\* Acc(w, Write)} with v bound and w free leaves exactly {Acc(w, Write)}.
\* With a bound variable of reference or type-variable type the call panics.
C6_QuantifierScoping ==
    /\ (Returned /\ construct.tag \in {"ForAll", "Exists"}) =>
        LET vs == construct.variables
            B == Req(construct.body)
            bound == {Local(vs[i]) : i \in 1..Len(vs)}
        IN  IF \E i \in 1..Len(vs) : vs[i].typ.kind \in {"TypedRef", "TypeVar"}
            THEN result = Panic
            ELSE B.ok =>
                 /\ result = Returns({perm \in B.perms :
                        ~ (perm.kind = "Acc" /\ perm.place \in bound)})
                 /\ \A pl \in bound : Acc(pl, Write) \notin result.perms
    /\ QuantifierArm(<<v>>, Returns({Acc(Local(v), Write), Acc(Local(w), Write)}))
            = Returns({Acc(Local(w), Write)})

C6_Witness ==
    /\ Returned
    /\ construct = ForAll(<<v>>,
            BinOp(PredicateAccessPredicate(Local(v), Write), Field(Local(w), f)))
    /\ Acc(Local(v), Read) \in Req(construct.body).perms
    /\ result = Returns({Pred(Local(v), Read), Acc(Field(Local(w), f), Read)})

\* what argument arg of a call contributes, as C7 states it
ArgumentContribution(arg) ==
    IF is_place(arg) /\ get_type(arg).kind \in {"TypedRef", "TypeVar"}
    THEN IF try_deref(arg) # <<>>
         THEN Returns({Acc(try_deref(arg)[1], Read), Pred(try_deref(arg)[1], Read)})
         ELSE Req(PredicateAccessPredicate(arg, Read))
    ELSE Req(arg)

\* C7: for FuncApp and DomainFuncApp an argument that is a place of
\* reference or type-variable type contributes exactly {Acc(d, Read),
\* Pred(d, Read)} when it has a one-step dereference d, and otherwise a
\* predicate-access permission on the argument at read amount; every other
\* argument contributes its own requirement.  The result is the union over
\* the arguments, whatever the function called.
C7_FuncAppArguments ==
    (Returned /\ construct.tag \in {"FuncApp", "DomainFuncApp"}) =>
        LET as == construct.arguments
            C == [i \in 1..Len(as) |-> ArgumentContribution(as[i])]
        IN  /\ \A i \in 1..Len(as) :
                (/\ is_place(as[i])
                 /\ get_type(as[i]).kind \in {"TypedRef", "TypeVar"}
                 /\ try_deref(as[i]) = <<>>) =>
                    /\ Pred(as[i], Read) \in C[i].perms
                    /\ C[i].perms \subseteq {Pred(as[i], Read), Acc(as[i], Read)}
            /\ IF \A i \in 1..Len(as) : C[i].ok
               THEN result = Returns(UNION {C[i].perms : i \in 1..Len(as)})
               ELSE result = Panic

C7_Witness ==
    /\ Returned
    /\ construct = FuncApp("f2", <<Local(q), Local(tv)>>)
    /\ result = Returns(
            {Acc(Field(Local(q), FieldOf("val_ref", TypedRef("T"))), Read),
             Pred(Field(Local(q), FieldOf("val_ref", TypedRef("T"))), Read),
             Pred(Local(tv), Read), Acc(Local(tv), Read)})

\* the evaluation of the analysis on e reaches a LetExpr, an AddrOf or a
\* SnapApp
RECURSIVE ReachesFatalExpr(_)
ReachesFatalExpr(e) ==
    CASE e.tag \in {"LetExpr", "AddrOf", "SnapApp"} -> TRUE
      [] e.tag = "UnaryOp" -> ReachesFatalExpr(e.argument)
      [] e.tag \in {"BinOp", "ContainerOp"} ->
            ReachesFatalExpr(e.left) \/ ReachesFatalExpr(e.right)
      [] e.tag = "Cond" ->
            \/ ReachesFatalExpr(e.guard)
            \/ ReachesFatalExpr(e.then_expr)
            \/ ReachesFatalExpr(e.else_expr)
      [] e.tag = "Seq" ->
            \E i \in 1..Len(e.elements) : ReachesFatalExpr(e.elements[i])
      [] e.tag \in {"FieldAccessPredicate", "Unfolding"} -> ReachesFatalExpr(e.base)
      [] e.tag \in {"ForAll", "Exists"} -> ReachesFatalExpr(e.body)
      [] e.tag \in {"FuncApp", "DomainFuncApp"} ->
            \E i \in 1..Len(e.arguments) :
                /\ ~ is_place(e.arguments[i])
                /\ ReachesFatalExpr(e.arguments[i])
      [] OTHER -> FALSE

\* the evaluation of the analysis on statement s reaches a LetExpr, an
\* AddrOf, a SnapApp or a MethodCall with arguments
RECURSIVE ReachesFatalStmt(_)
ReachesFatalStmt(s) ==
    CASE s.tag = "Stmt::MethodCall" -> s.arguments # <<>>
      [] s.tag \in {"Stmt::Exhale", "Stmt::Assert", "Stmt::Obtain"} ->
            ReachesFatalExpr(s.expr)
      [] s.tag = "Stmt::Assign" -> ReachesFatalExpr(s.source)
      [] s.tag = "Stmt::ApplyMagicWand" ->
            s.magic_wand.tag = "MagicWand" /\ ReachesFatalExpr(s.magic_wand.left)
      [] s.tag = "Stmt::If" ->
            \/ ReachesFatalExpr(s.guard)
            \/ \E i \in 1..Len(s.then_stmts) : ReachesFatalStmt(s.then_stmts[i])
            \/ \E i \in 1..Len(s.else_stmts) : ReachesFatalStmt(s.else_stmts[i])
      [] OTHER -> FALSE

StmtTags ==
    {"Stmt::Comment", "Stmt::Label", "Stmt::Exhale", "Stmt::Assert",
     "Stmt::Obtain", "Stmt::MethodCall", "Stmt::Assign", "Stmt::Fold",
     "Stmt::Unfold", "Stmt::BeginFrame", "Stmt::EndFrame", "Stmt::TransferPerm",
     "Stmt::PackageMagicWand", "Stmt::ApplyMagicWand", "Stmt::ExpireBorrows",
     "Stmt::If", "Stmt::Downcast", "Stmt::Assume"}

IsStmt(c) == c.tag \in StmtTags

\* C8: the analysis of a LetExpr, an AddrOf, a SnapApp or a MethodCall with
\* arguments panics and returns no set, and so does the analysis of every
\* construct whose evaluation reaches such a node (an operand of BinOp, the
\* source of Assign, a statement in a branch of If, ...).
C8_FatalPaths ==
    Returned =>
        /\ (IsStmt(construct) /\ ReachesFatalStmt(construct)) => result = Panic
        /\ (~ IsStmt(construct) /\ ReachesFatalExpr(construct)) => result = Panic

C8_Witness ==
    /\ Returned
    /\ construct = If(Const, <<Assign(Local(x), Const)>>,
                      <<Assign(Local(y), Const), Exhale(LetExpr(v, Const, Const))>>)
    /\ result = Panic

\* C10: for BinOp, ContainerOp, Seq and Cond the result is the plain union
\* of the requirements of all operands (for Cond all three, the arms are
\* not intersected); it depends on the set of operands only, not on their
\* order or their repetition, and an empty Seq requires nothing.
C10_UnionOfOperands ==
    Returned =>
        /\ construct.tag \in {"BinOp", "ContainerOp"} =>
            /\ result = UnionOfExprs({construct.left, construct.right})
            /\ result = Req([construct EXCEPT !.left = construct.right,
                                              !.right = construct.left])
        /\ construct.tag = "Seq" =>
            /\ result = UnionOfExprs(
                    {construct.elements[i] : i \in 1..Len(construct.elements)})
            /\ construct.elements = <<>> => result = Returns({})
        /\ construct.tag = "Cond" =>
            result = UnionOfExprs(
                    {construct.guard, construct.then_expr, construct.else_expr})

C10_Witness ==
    /\ Returned
    /\ construct = Cond(Field(Local(x), f), Field(Local(y), f),
                        PredicateAccessPredicate(Local(p), Read))
    /\ result = Returns({Acc(Field(Local(x), f), Read), Acc(Field(Local(y), f), Read),
                         Pred(Local(p), Read), Acc(Local(p), Read)})


\* C11: the result for PredicateAccessPredicate(argument) does not depend on
\* the amount written in the predicate access; every permission returned
\* has amount Read; an old argument gives exactly one Pred permission, any
\* other argument exactly a Pred and an Acc permission on one place; the
\* place is the argument when it carries no label and the argument
\* re-labelled with its label when it carries one.
C11_PredicateAccess ==
    (Returned /\ construct.tag = "PredicateAccessPredicate") =>
        LET argument == construct.argument
            place == IF argument.tag = "LabelledOld"
                     THEN old(argument, argument.label) ELSE argument
        IN  /\ result.ok
            /\ \A amount \in PermAmount :
                    result = Req([construct EXCEPT !.permission = amount])
            /\ \A perm \in result.perms : perm.amount = Read
            /\ IF argument.tag = "LabelledOld"
               THEN result.perms = {Pred(place, Read)}
               ELSE /\ result.perms = {Pred(place, Read), Acc(place, Read)}
                    /\ Cardinality(result.perms) = 2

C11_Witness ==
    /\ Returned
    /\ construct = PredicateAccessPredicate(LabelledOld("l1", Local(p)), Write)
    /\ result = Returns({Pred(LabelledOld("l1", Local(p)), Read)})


\* C12: a Downcast expression on enum_place, and a Downcast statement on
\* base (which gives what the Downcast expression on that place gives),
\* requires exactly {Acc(enum_place.discriminant, Read)}, the discriminant
\* being the discriminant field of the enum predicate of the place's type,
\* whatever the target field of the downcast; without a predicate for the
\* place's type, or with one that is no enum predicate, the call panics.
C12_Downcast ==
    (Returned /\ construct.tag \in {"Downcast", "Stmt::Downcast"}) =>
        LET place == IF construct.tag = "Downcast"
                     THEN construct.enum_place ELSE construct.base
            typ == get_type(place)
        IN  /\ IF typ \in DOMAIN predicates
               THEN IF predicates[typ].kind = "Enum"
                    THEN result = Returns(
                            {Acc(Field(place, predicates[typ].discriminant_field),
                                 Read)})
                    ELSE result = Panic
               ELSE result = Panic
            /\ construct.tag = "Stmt::Downcast" =>
                    \A b \in {Const, Local(x)} :
                        result = Req(DowncastExpr(b, place, construct.field))

C12_Witness ==
    /\ Returned
    /\ construct = DowncastStmt(LabelledOld("l1", Local(en)), variantA)
    /\ TypedRef("E") \in DOMAIN predicates
    /\ predicates[TypedRef("E")] = EnumE
    /\ result = Returns({Acc(Field(LabelledOld("l1", Local(en)), discriminant),
                             Read)})


\* the permissions of S on place pl
PermsOn(S, pl) == {perm \in S : perm.place = pl}

C13_AssignReached ==
    /\ Returned
    /\ construct = Assign(Field(Local(x), f), Field(Local(x), f))
    /\ result = Returns({Acc(Field(Local(x), f), Read),
                         Acc(Field(Local(x), f), Write)})


\* the immediate sub-expressions of expression e
SubExprs(e) ==
    CASE e.tag \in {"Const", "Local"} -> {}
      [] e.tag \in {"Field", "Variant", "LabelledOld", "AddrOf",
                    "FieldAccessPredicate", "SnapApp"} -> {e.base}
      [] e.tag = "Unfolding" ->
            {e.base} \cup {e.arguments[i] : i \in 1..Len(e.arguments)}
      [] e.tag \in {"PredicateAccessPredicate", "UnaryOp"} -> {e.argument}
      [] e.tag \in {"BinOp", "ContainerOp", "MagicWand"} -> {e.left, e.right}
      [] e.tag = "Seq" -> {e.elements[i] : i \in 1..Len(e.elements)}
      [] e.tag = "Cond" -> {e.guard, e.then_expr, e.else_expr}
      [] e.tag = "LetExpr" -> {e.def, e.body}
      [] e.tag \in {"ForAll", "Exists"} -> {e.body}
      [] e.tag \in {"FuncApp", "DomainFuncApp"} ->
            {e.arguments[i] : i \in 1..Len(e.arguments)}
      [] e.tag = "InhaleExhale" -> {e.inhale_expr, e.exhale_expr}
      [] e.tag = "Downcast" -> {e.base, e.enum_place}

RECURSIVE ContainsUnfolding(_)
ContainsUnfolding(e) ==
    e.tag = "Unfolding" \/ \E c \in SubExprs(e) : ContainsUnfolding(c)

\* Pred(place, amount) for every Unfolding([place], _, amount, _) node of e
RECURSIVE UnfoldingPreds(_)
UnfoldingPreds(e) ==
    (IF e.tag = "Unfolding" /\ Len(e.arguments) = 1
     THEN {Pred(e.arguments[1], e.permission)} ELSE {})
    \cup UNION {UnfoldingPreds(c) : c \in SubExprs(e)}

ExprReturned ==
    /\ Returned
    /\ ~ IsStmt(construct)
    /\ result.ok

\* C14: every permission returned for an expression without an Unfolding
\* node has amount Read; a permission of amount Write in the requirement of
\* an expression is the Pred(place, amount) of one of its Unfolding nodes;
\* LabelledOld, MagicWand and InhaleExhale require nothing, whatever their
\* sub-expressions.
C14_ReadAmounts ==
    /\ ExprReturned =>
        /\ ~ ContainsUnfolding(construct) =>
                \A perm \in result.perms : perm.amount = Read
        /\ \A perm \in result.perms :
                perm.amount = Write => perm \in UnfoldingPreds(construct)
    /\ (Returned /\ construct.tag \in {"LabelledOld", "MagicWand", "InhaleExhale"})
            => result = Returns({})

\* no Unfolding node; the MagicWand operand, over a SnapApp and a field,
\* contributes nothing
C14_Witness ==
    /\ Returned
    /\ construct = BinOp(MagicWand(SnapApp(Local(p)), Field(Local(x), f)),
                         Field(Local(p), g))
    /\ ~ ContainsUnfolding(construct)
    /\ result = Returns({Acc(Field(Local(p), g), Read)})

\* a permission of amount Write, inserted by an Unfolding node
C14_WriteReached ==
    /\ Returned
    /\ construct = BinOp(Unfolding(<<Local(p)>>, Field(Local(p), f), Write,
                                   NoVariant),
                         Field(Local(x), f))
    /\ result = Returns({Pred(Local(p), Write), Acc(Field(Local(x), f), Read)})

=============================================================================
